---- MODULE Spec2Model ----
(***************************************************************************)
(* A model of slice::IoSlice (src/src/lib.rs): a bounded view into a       *)
(* seekable stream.  The view's fields, its constructor and its Seek,      *)
(* Read, Write, Clone and TryClone implementations are translated from the *)
(* source; the underlying stream T is the environment: a fixed-capacity    *)
(* in-memory store with a cursor, whose calls may transfer fewer bytes     *)
(* than asked, may fail, and whose seek may clamp to the end of the store. *)
(*                                                                         *)
(* Machine words are scaled: u64 is WordBits bits wide, i64::MAX is        *)
(* 2^(WordBits-1) - 1, and usize is as wide as u64 (a 64-bit target).      *)
(***************************************************************************)
EXTENDS Integers, Sequences, FiniteSets, TLC

VARIABLES
    view,       \* view[v]: the IoSlice v (alive, underlying, begin, length, remaining)
    stream,     \* stream[h]: the underlying stream behind handle h (data, pos)
    last,       \* the last call made on a view, its arguments and its outcome
    ghost       \* history since the view's creation, for the claims about runs

vars == <<view, stream, last, ghost>>

----------------------------------------------------------------------------
(* Bounds of the model.                                                    *)

WordBits == 3       \* width of the scaled u64 / i64
StreamSize == 2     \* bytes held by the underlying store
MaxBuf == 3         \* longest caller buffer passed to read / write
MaxDest == 1        \* longest content of the vector passed to read_to_end

----------------------------------------------------------------------------
(* Machine integers.                                                       *)

U64Mod == 2 ^ WordBits
U64_MAX == U64Mod - 1
I64_MAX == 2 ^ (WordBits - 1) - 1
I64_MIN == 0 - 2 ^ (WordBits - 1)
USIZE_MAX == U64_MAX

U64 == 0 .. U64_MAX
I64 == I64_MIN .. I64_MAX

Min(a, b) == IF a <= b THEN a ELSE b
Max(a, b) == IF a >= b THEN a ELSE b

\* u64 arithmetic as the release build computes it: modulo 2^64.
AddU64(a, b) == (a + b) % U64Mod
SubU64(a, b) == (a - b) % U64Mod
\* `x as u64` of an i64: the two's complement bit pattern.
AsU64(x) == x % U64Mod

----------------------------------------------------------------------------
(* The views and the handles of the underlying streams.                    *)

Views == {1, 2}
Handles == {1, 2}

\* The byte every write stores; the store initially holds byte i+1 at offset i.
WrittenByte == 0
InitialData == [i \in 1 .. StreamSize |-> i]

NoView == [alive |-> FALSE, underlying |-> 0, begin |-> 0, length |-> 0, remaining |-> 0]

IoSlice(underlying, begin, length, remaining) ==
    [alive |-> TRUE, underlying |-> underlying, begin |-> begin,
     length |-> length, remaining |-> remaining]

len(self) == self.length

position(self) == SubU64(self.length, self.remaining)

pos(self) == position(self)

----------------------------------------------------------------------------
(* The record of the last call.                                            *)
(*   op, v, arg   the call, the view it was made on, its arguments         *)
(*   res, val     the error kind ("Ok" on success) and the value returned  *)
(*   ucalls       the calls issued on the underlying stream, in order      *)
(*   under        how the underlying stream answered: "none" when it was   *)
(*                not called, "ok", "misreport" (a seek that lands         *)
(*                elsewhere), "eof", "err"                                 *)
(*   prem         remaining before the call                                *)
(*   lo, n        cursor of the underlying stream before the call and the  *)
(*                number of bytes the call moved from or into the store    *)
(*   out          the bytes a read delivered to the caller                 *)

(* A run that starts with last.op = "untraced" keeps no record.             *)

Call(op, v, arg, res, val, ucalls, under, prem, lo, n, out) ==
    IF last.op = "untraced"
    THEN last
    ELSE [op |-> op, v |-> v, arg |-> arg, res |-> res, val |-> val,
          ucalls |-> ucalls, under |-> under, prem |-> prem, lo |-> lo, n |-> n,
          out |-> out]

NoArg == [kind |-> "none", a |-> 0, b |-> 0]
NoCall ==
    [op |-> "none", v |-> 0, arg |-> NoArg, res |-> "Ok", val |-> 0,
     ucalls |-> <<>>, under |-> "none", prem |-> 0, lo |-> 0, n |-> 0, out |-> <<>>]
Untraced == [NoCall EXCEPT !.op = "untraced"]

UCall(kind, arg) == [call |-> kind, arg |-> arg]

NoGhost == [begin |-> 0, length |-> 0, onlyReads |-> FALSE, readSum |-> 0]

Init ==
    /\ view = [v \in Views |-> NoView]
    /\ stream = [h \in Handles |-> [data |-> InitialData, pos |-> 0]]
    /\ last = NoCall
    /\ ghost = [v \in Views |-> NoGhost]

----------------------------------------------------------------------------
(* The underlying stream T.                                                *)

\* Bytes between the cursor and the end of the store.
Avail(s) == Max(0, Len(s.data) - s.pos)

\* T::seek(SeekFrom::Start(to)): the cursor after the call, under each
\* way the stream can answer.  A clamping store lands at its end.
USeekOutcomes(s, to) ==
    {"ok", "err"} \cup (IF to > Len(s.data) THEN {"misreport"} ELSE {})

USeekPos(s, to, outcome) ==
    CASE outcome = "ok" -> to
      [] outcome = "misreport" -> Len(s.data)
      [] OTHER -> s.pos

\* T::read(&mut buf[..request]) may deliver any count from 1 to what is
\* there, and 0 only when nothing is asked for or nothing is left.
UReadCounts(s, request) ==
    LET m == Min(request, Avail(s))
    IN  IF m = 0 THEN {0} ELSE 1 .. m

UBytes(s, k) == SubSeq(s.data, s.pos + 1, s.pos + k)

\* T::write(&buf[..size]) may accept any count from 1 to the room left.
UWriteCounts(s, size) ==
    LET m == Min(size, Avail(s))
    IN  IF m = 0 THEN {0} ELSE 1 .. m

UStore(s, k) ==
    [data |-> [i \in 1 .. Len(s.data) |->
                  IF i > s.pos /\ i <= s.pos + k THEN WrittenByte ELSE s.data[i]],
     pos |-> s.pos + k]

UAdvance(s, k) == [s EXCEPT !.pos = s.pos + k]

\* A slip of the operator below: the error of the stream is replaced.
Propagate_asOther(e) == "Other"

\* The `?` after a call on the stream: its error is returned as it is.
Propagate(e) == e

----------------------------------------------------------------------------
(* IoSlice::new                                                            *)

\* Slips of the check below: only the wrapped sum is compared; the sum is
\* compared with >= in place of >.
NewRejects_wrappedSumOnly(begin, length) ==
    AddU64(begin, length) > I64_MAX

NewRejects_offByOne(begin, length) ==
    \/ begin > I64_MAX
    \/ length > I64_MAX
    \/ AddU64(begin, length) >= I64_MAX

\* The invariant check of new: `||` short-circuits, so begin + length is
\* only added when neither operand exceeds i64::MAX.
NewRejects(begin, length) ==
    \/ begin > I64_MAX
    \/ length > I64_MAX
    \/ AddU64(begin, length) > I64_MAX

\* remaining of a view that new returns.
NewRemaining(length) == length

\* A slip of the comparison below: the position the source reports is not
\* looked at.
NewLanded_unchecked(reported, begin) == TRUE

\* "if our request to seek to `begin` does not place us at `begin`, this
\* stream is invalid"
NewLanded(reported, begin) == reported = begin

New(v, h, begin, length) ==
    /\ \A w \in Views : ~view[w].alive
    /\ LET s == stream[h]
           arg == [kind |-> "new", a |-> begin, b |-> length]
       IN  IF NewRejects(begin, length)
           THEN /\ last' = Call("new", v, arg, "InvalidInput", 0, <<>>, "none",
                                0, s.pos, 0, <<>>)
                /\ UNCHANGED <<view, stream, ghost>>
           ELSE \E outcome \in USeekOutcomes(s, begin) :
                LET p == USeekPos(s, begin, outcome)
                    uc == <<UCall("seek", begin)>>
                IN  /\ stream' = [stream EXCEPT ![h].pos = p]
                    /\ IF outcome = "err"
                       THEN /\ last' = Call("new", v, arg, Propagate("Io"), 0, uc,
                                            outcome, 0, s.pos, 0, <<>>)
                            /\ UNCHANGED <<view, ghost>>
                       ELSE IF NewLanded(p, begin)
                       THEN /\ view' = [view EXCEPT ![v] =
                                   IoSlice(h, begin, length, NewRemaining(length))]
                            /\ ghost' = [ghost EXCEPT ![v] =
                                   [begin |-> begin, length |-> length,
                                    onlyReads |-> TRUE, readSum |-> 0]]
                            /\ last' = Call("new", v, arg, "Ok", 0, uc, outcome,
                                            0, s.pos, 0, <<>>)
                       ELSE /\ last' = Call("new", v, arg, "InvalidInput", 0, uc,
                                            outcome, 0, s.pos, 0, <<>>)
                            /\ UNCHANGED <<view, ghost>>

----------------------------------------------------------------------------
(* History kept for the claims: whether only reads were made on the view   *)
(* since new returned it, and how many bytes they delivered.               *)

Touch(v, isRead, k) ==
    ghost' = [ghost EXCEPT ![v] =
                 IF @.onlyReads /\ isRead
                 THEN [@ EXCEPT !.readSum = @ + k]
                 ELSE [@ EXCEPT !.onlyReads = FALSE, !.readSum = 0]]

----------------------------------------------------------------------------
(* impl Seek for IoSlice                                                   *)

SeekFrom ==
    [whence : {"Start"}, x : U64] \cup [whence : {"Current", "End"}, x : I64]

\* `x as u64` of the offset carried by the variant.
SeekRaw(from) ==
    IF from.whence = "Start" THEN from.x ELSE AsU64(from.x)

\* A slip of the check below: the check is left out.
SeekRejects_never(from) == FALSE

\* A slip of the check below: only the offset of SeekFrom::Start is looked at.
SeekRejects_startOnly(from) == from.whence = "Start" /\ from.x > I64_MAX

\* The first check of seek.
SeekRejects(from) == SeekRaw(from) > I64_MAX

\* "calculate the new stream offset"
SeekAbsolute(self, from) ==
    CASE from.whence = "Start" ->
            AddU64(self.begin, SeekRaw(from))
      [] from.whence = "Current" ->
            AddU64(SubU64(AddU64(self.begin, self.length), self.remaining),
                   SeekRaw(from))
      [] from.whence = "End" ->
            AddU64(AddU64(self.begin, self.length), SeekRaw(from))

\* A slip of the check below: the end of the window is excluded.
SeekInBounds_endExcluded(self, absolute) ==
    /\ absolute >= self.begin
    /\ absolute < AddU64(self.begin, self.length)

SeekInBounds(self, absolute) ==
    /\ absolute >= self.begin
    /\ absolute <= AddU64(self.begin, self.length)

\* A slip of the comparison below: the position the stream reports is not
\* looked at.
SeekLanded_unchecked(reported, absolute) == TRUE

\* "make sure that the new position is the one we requested"
SeekLanded(reported, absolute) == reported = absolute

\* The value seek returns on success.
SeekNew(self, absolute) == SubU64(absolute, self.begin)

\* A slip of the assignment below: begin is not subtracted.
SeekRemaining_absolute(self, absolute) == SubU64(self.length, absolute)

\* remaining after a successful seek.
SeekRemaining(self, absolute) == SubU64(self.length, SeekNew(self, absolute))

Seek(v, from) ==
    /\ view[v].alive
    /\ LET self == view[v]
           h == self.underlying
           s == stream[h]
           arg == [kind |-> from.whence, a |-> from.x, b |-> 0]
           absolute == SeekAbsolute(self, from)
       IN  /\ Touch(v, FALSE, 0)
           /\ IF SeekRejects(from)
              THEN /\ last' = Call("seek", v, arg, "InvalidInput", 0, <<>>, "none",
                                   self.remaining, s.pos, 0, <<>>)
                   /\ UNCHANGED <<view, stream>>
              ELSE IF SeekInBounds(self, absolute)
              THEN \E outcome \in USeekOutcomes(s, absolute) :
                   LET p == USeekPos(s, absolute, outcome)
                       uc == <<UCall("seek", absolute)>>
                   IN  /\ stream' = [stream EXCEPT ![h].pos = p]
                       /\ IF outcome = "err"
                          THEN /\ last' = Call("seek", v, arg, Propagate("Io"), 0, uc,
                                               outcome, self.remaining, s.pos, 0, <<>>)
                               /\ UNCHANGED view
                          ELSE IF SeekLanded(p, absolute)
                          THEN /\ view' = [view EXCEPT ![v].remaining =
                                              SeekRemaining(self, absolute)]
                               /\ last' = Call("seek", v, arg, "Ok",
                                               SeekNew(self, absolute), uc, outcome,
                                               self.remaining, s.pos, 0, <<>>)
                          ELSE /\ last' = Call("seek", v, arg, "Other", 0, uc, outcome,
                                               self.remaining, s.pos, 0, <<>>)
                               /\ UNCHANGED view
              ELSE /\ last' = Call("seek", v, arg, "UnexpectedEof", 0, <<>>, "none",
                                   self.remaining, s.pos, 0, <<>>)
                   /\ UNCHANGED <<view, stream>>

----------------------------------------------------------------------------
(* impl Read for IoSlice                                                   *)

\* Slips of the request below: remaining is not taken into account; one
\* byte more than remaining is allowed.
ReadRequest_unclamped(self, capacity) == Min(USIZE_MAX, capacity)

ReadRequest_offByOne(self, capacity) ==
    Min(Min(self.remaining + 1, USIZE_MAX), capacity)

\* The number of bytes read asks the underlying stream for.
ReadRequest(self, capacity) ==
    Min(Min(self.remaining, USIZE_MAX), capacity)

\* remaining after the underlying stream delivered `actual` bytes.
ReadRemaining(self, actual) == SubU64(self.remaining, actual)

Read(v, capacity) ==
    /\ view[v].alive
    /\ LET self == view[v]
           h == self.underlying
           s == stream[h]
           arg == [kind |-> "buffer", a |-> capacity, b |-> 0]
           request == ReadRequest(self, capacity)
           uc == <<UCall("read", request)>>
       IN  \/ \E actual \in UReadCounts(s, request) :
                /\ stream' = [stream EXCEPT ![h] = UAdvance(s, actual)]
                /\ view' = [view EXCEPT ![v].remaining = ReadRemaining(self, actual)]
                /\ last' = Call("read", v, arg, "Ok", actual, uc, "ok",
                                self.remaining, s.pos, actual, UBytes(s, actual))
                /\ Touch(v, TRUE, actual)
           \/ /\ last' = Call("read", v, arg, Propagate("Io"), 0, uc, "err",
                              self.remaining, s.pos, 0, <<>>)
              /\ Touch(v, TRUE, 0)
              /\ UNCHANGED <<view, stream>>

DestByte == 9
Dest(k) == [i \in 1 .. k |-> DestByte]

\* The first check of read_to_end.
ReadToEndRejects(self) == self.remaining > USIZE_MAX

\* remaining after read_exact filled the reserved region.
ReadToEndRemaining(self) == 0

\* A slip of the operator below: set_len runs before read_exact is known to
\* have filled the region.
ReadToEndVec_earlySetLen(buffer, bytes, filled) == buffer \o bytes

\* The vector after the call: set_len(length + remaining) runs only after
\* read_exact returned Ok; `bytes` is what read_exact put in the region.
ReadToEndVec(buffer, bytes, filled) ==
    IF filled THEN buffer \o bytes ELSE buffer

ReadToEnd(v, k) ==
    /\ view[v].alive
    /\ LET self == view[v]
           h == self.underlying
           s == stream[h]
           buffer == Dest(k)
           arg == [kind |-> "vec", a |-> k, b |-> 0]
           remaining == self.remaining
           uc == <<UCall("read_exact", remaining)>>
       IN  /\ Touch(v, FALSE, 0)
           /\ IF ReadToEndRejects(self)
              THEN /\ last' = Call("read_to_end", v, arg, "InvalidInput", 0, <<>>,
                                   "none", self.remaining, s.pos, 0, buffer)
                   /\ UNCHANGED <<view, stream>>
              ELSE \/ /\ Avail(s) >= remaining
                      /\ stream' = [stream EXCEPT ![h] = UAdvance(s, remaining)]
                      /\ view' = [view EXCEPT ![v].remaining = ReadToEndRemaining(self)]
                      /\ last' = Call("read_to_end", v, arg, "Ok", remaining, uc, "ok",
                                      self.remaining, s.pos, remaining,
                                      ReadToEndVec(buffer, UBytes(s, remaining), TRUE))
                   \/ /\ Avail(s) < remaining
                      /\ stream' = [stream EXCEPT ![h] = UAdvance(s, Avail(s))]
                      /\ last' = Call("read_to_end", v, arg, Propagate("UnexpectedEof"),
                                      0, uc, "eof", self.remaining, s.pos, Avail(s),
                                      ReadToEndVec(buffer, UBytes(s, Avail(s)), FALSE))
                      /\ UNCHANGED view
                   \/ \E j \in 0 .. Max(0, Min(remaining - 1, Avail(s))) :
                      /\ stream' = [stream EXCEPT ![h] = UAdvance(s, j)]
                      /\ last' = Call("read_to_end", v, arg, Propagate("Io"), 0, uc,
                                      "err", self.remaining, s.pos, j,
                                      ReadToEndVec(buffer, UBytes(s, j), FALSE))
                      /\ UNCHANGED view

----------------------------------------------------------------------------
(* impl Write for IoSlice                                                  *)

\* A slip of the comparison below: a buffer of exactly `remaining` bytes is
\* turned away as well.
WriteRejects_offByOne(self, size) == size >= self.remaining

\* The check that opens write and write_all.
WriteRejects(self, size) == size > self.remaining

\* A slip of the operator below: the accepted bytes are not counted.
WriteRemaining_unchanged(self, actual) == self.remaining

\* remaining after the underlying stream accepted `actual` bytes.
WriteRemaining(self, actual) == SubU64(self.remaining, actual)

Write(v, size) ==
    /\ view[v].alive
    /\ LET self == view[v]
           h == self.underlying
           s == stream[h]
           arg == [kind |-> "buffer", a |-> size, b |-> 0]
           uc == <<UCall("write", size)>>
       IN  /\ Touch(v, FALSE, 0)
           /\ IF WriteRejects(self, size)
              THEN /\ last' = Call("write", v, arg, "UnexpectedEof", 0, <<>>, "none",
                                   self.remaining, s.pos, 0, <<>>)
                   /\ UNCHANGED <<view, stream>>
              ELSE \/ \E actual \in UWriteCounts(s, size) :
                        /\ stream' = [stream EXCEPT ![h] = UStore(s, actual)]
                        /\ view' = [view EXCEPT ![v].remaining =
                                       WriteRemaining(self, actual)]
                        /\ last' = Call("write", v, arg, "Ok", actual, uc, "ok",
                                        self.remaining, s.pos, actual, <<>>)
                   \/ /\ last' = Call("write", v, arg, Propagate("Io"), 0, uc, "err",
                                      self.remaining, s.pos, 0, <<>>)
                      /\ UNCHANGED <<view, stream>>

\* remaining after the underlying write_all stored the whole buffer.
WriteAllRemaining(self, size) == self.remaining

WriteAll(v, size) ==
    /\ view[v].alive
    /\ LET self == view[v]
           h == self.underlying
           s == stream[h]
           arg == [kind |-> "buffer", a |-> size, b |-> 0]
           uc == <<UCall("write_all", size)>>
       IN  /\ Touch(v, FALSE, 0)
           /\ IF WriteRejects(self, size)
              THEN /\ last' = Call("write_all", v, arg, "UnexpectedEof", 0, <<>>,
                                   "none", self.remaining, s.pos, 0, <<>>)
                   /\ UNCHANGED <<view, stream>>
              ELSE \/ /\ Avail(s) >= size
                      /\ stream' = [stream EXCEPT ![h] = UStore(s, size)]
                      /\ view' = [view EXCEPT ![v].remaining =
                                     WriteAllRemaining(self, size)]
                      /\ last' = Call("write_all", v, arg, "Ok", 0, uc, "ok",
                                      self.remaining, s.pos, size, <<>>)
                   \/ /\ Avail(s) < size
                      /\ stream' = [stream EXCEPT ![h] = UStore(s, Avail(s))]
                      /\ last' = Call("write_all", v, arg, "WriteZero", 0, uc, "eof",
                                      self.remaining, s.pos, Avail(s), <<>>)
                      /\ UNCHANGED view
                   \/ \E j \in 0 .. Max(0, Min(size - 1, Avail(s))) :
                      /\ stream' = [stream EXCEPT ![h] = UStore(s, j)]
                      /\ last' = Call("write_all", v, arg, "Io", 0, uc, "err",
                                      self.remaining, s.pos, j, <<>>)
                      /\ UNCHANGED view

Flush(v) ==
    /\ view[v].alive
    /\ LET self == view[v]
           s == stream[self.underlying]
           uc == <<UCall("flush", 0)>>
       IN  /\ Touch(v, FALSE, 0)
           /\ \E outcome \in {"ok", "err"} :
                last' = Call("flush", v, NoArg,
                             IF outcome = "ok" THEN "Ok" ELSE "Io", 0, uc, outcome,
                             self.remaining, s.pos, 0, <<>>)
           /\ UNCHANGED <<view, stream>>

----------------------------------------------------------------------------
(* impl Clone for IoSlice, impl TryClone for IoSlice                       *)

\* The view that clone and try_clone build around the duplicated stream.
CloneOf(self, underlying) ==
    IoSlice(underlying, self.begin, self.length, self.remaining)

\* T::clone() of an owning stream (Cursor<Vec<u8>>): a copy of the store
\* and of the cursor behind a handle of its own.
Clone(v, w) ==
    /\ view[v].alive
    /\ ~view[w].alive
    /\ LET self == view[v]
           h == self.underlying
           g == CHOOSE x \in Handles : x # h
       IN  /\ stream' = [stream EXCEPT ![g] = stream[h]]
           /\ view' = [view EXCEPT ![w] = CloneOf(self, g)]
           /\ ghost' = [ghost EXCEPT ![v].onlyReads = FALSE, ![v].readSum = 0,
                                     ![w] = [ghost[v] EXCEPT !.onlyReads = FALSE,
                                                             !.readSum = 0]]
           /\ last' = Call("clone", v, NoArg, "Ok", 0, <<UCall("clone", 0)>>, "ok",
                           self.remaining, stream[h].pos, 0, <<>>)

\* File::try_clone() duplicates the descriptor: both handles name one open
\* file, with one cursor.  The duplication can fail.
TryClone(v, w) ==
    /\ view[v].alive
    /\ ~view[w].alive
    /\ LET self == view[v]
           h == self.underlying
           uc == <<UCall("try_clone", 0)>>
       IN  /\ \/ /\ view' = [view EXCEPT ![w] = CloneOf(self, h)]
                 /\ ghost' = [ghost EXCEPT ![v].onlyReads = FALSE, ![v].readSum = 0,
                                           ![w] = [ghost[v] EXCEPT !.onlyReads = FALSE,
                                                                   !.readSum = 0]]
                 /\ last' = Call("try_clone", v, NoArg, "Ok", 0, uc, "ok",
                                 self.remaining, stream[h].pos, 0, <<>>)
              \/ /\ ghost' = [ghost EXCEPT ![v].onlyReads = FALSE, ![v].readSum = 0]
                 /\ last' = Call("try_clone", v, NoArg, "Io", 0, uc, "err",
                                 self.remaining, stream[h].pos, 0, <<>>)
                 /\ UNCHANGED view
           /\ UNCHANGED stream

----------------------------------------------------------------------------
(* The calls a program can make on one view it created.                    *)

Next ==
    \/ \E begin \in U64, length \in U64 : New(1, 1, begin, length)
    \/ \E from \in SeekFrom : Seek(1, from)
    \/ \E capacity \in 0 .. MaxBuf : Read(1, capacity)
    \/ \E k \in 0 .. MaxDest : ReadToEnd(1, k)
    \/ \E size \in 0 .. MaxBuf : Write(1, size)
    \/ \E size \in 0 .. MaxBuf : WriteAll(1, size)
    \/ Flush(1)

Spec == Init /\ [][Next]_vars

(* The calls a program can make on a view and on one duplicate of it.      *)
(* Two views square the states, so these runs keep no record of the calls. *)

InitClone ==
    /\ view = [v \in Views |-> NoView]
    /\ stream = [h \in Handles |-> [data |-> InitialData, pos |-> 0]]
    /\ last = Untraced
    /\ ghost = [v \in Views |-> NoGhost]

NextClone ==
    \/ \E begin \in U64, length \in U64 : New(1, 1, begin, length)
    \/ Clone(1, 2)
    \/ TryClone(1, 2)
    \/ \E v \in Views, from \in SeekFrom : Seek(v, from)
    \/ \E v \in Views, capacity \in 0 .. MaxBuf : Read(v, capacity)
    \/ \E v \in Views, k \in 0 .. MaxDest : ReadToEnd(v, k)
    \/ \E v \in Views, size \in 0 .. MaxBuf : Write(v, size)
    \/ \E v \in Views, size \in 0 .. MaxBuf : WriteAll(v, size)
    \/ \E v \in Views : Flush(v)

SpecClone == InitClone /\ [][NextClone]_vars

(* The same calls over a stream that never reports an I/O error and never  *)
(* misreports a seek.  The store is finite, so read_exact and write_all    *)
(* can still run out of bytes or of room.                                  *)

Steady == last'.under \in {"none", "ok", "eof"}

NextSteady ==
    \/ (\E begin \in U64, length \in U64 : New(1, 1, begin, length)) /\ Steady
    \/ (\E from \in SeekFrom : Seek(1, from)) /\ Steady
    \/ (\E capacity \in 0 .. MaxBuf : Read(1, capacity)) /\ Steady
    \/ (\E k \in 0 .. MaxDest : ReadToEnd(1, k)) /\ Steady
    \/ (\E size \in 0 .. MaxBuf : Write(1, size)) /\ Steady
    \/ (\E size \in 0 .. MaxBuf : WriteAll(1, size)) /\ Steady
    \/ Flush(1) /\ Steady

SpecSteady == Init /\ [][NextSteady]_vars

(* new followed by seek, read, read_to_end, write and flush only, over a   *)
(* stream whose every call succeeds and does what it was asked.            *)

Succeeds == last'.under \in {"none", "ok"}

NextPlain ==
    \/ (\E begin \in U64, length \in U64 : New(1, 1, begin, length)) /\ Succeeds
    \/ (\E from \in SeekFrom : Seek(1, from)) /\ Succeeds
    \/ (\E capacity \in 0 .. MaxBuf : Read(1, capacity)) /\ Succeeds
    \/ (\E k \in 0 .. MaxDest : ReadToEnd(1, k)) /\ Succeeds
    \/ (\E size \in 0 .. MaxBuf : Write(1, size)) /\ Succeeds
    \/ Flush(1) /\ Succeeds

SpecPlain == Init /\ [][NextPlain]_vars

----------------------------------------------------------------------------
(* The claims.  `The` is the single view of Spec; the quantities below are  *)
(* read off the record of the last call.                                   *)

The == view[1]

Offsets(lo, n) == lo .. (lo + n - 1)

Window(self) == self.begin .. (self.begin + self.length - 1)

\* Absolute offsets whose bytes the last call handed to its caller.
Delivered ==
    IF last.op \in {"read", "read_to_end"} /\ last.res = "Ok"
    THEN Offsets(last.lo, last.n) ELSE {}

\* Absolute offsets whose bytes the last call stored into.
Modified ==
    IF last.op \in {"write", "write_all"} THEN Offsets(last.lo, last.n) ELSE {}

\* Position of the view before the last call.
PositionBefore == The.length - last.prem

\* The window-relative offset a seek asks for, as a mathematical integer.
SeekTarget ==
    CASE last.arg.kind = "Start" -> last.arg.a
      [] last.arg.kind = "Current" -> PositionBefore + last.arg.a
      [] last.arg.kind = "End" -> The.length + last.arg.a

\* The underlying stream did what the call asked of it, when it was asked.
Honoured == last.under \in {"none", "ok"}

(* C1: no read delivers and no write modifies a byte of the underlying     *)
(* stream whose absolute offset lies outside [begin, begin + length).      *)
C1_WindowConfinement ==
    The.alive => (Delivered \cup Modified) \subseteq Window(The)

(* C2: a write_all that succeeds decrements remaining by the length of the *)
(* buffer.                                                                 *)
C2_WriteAllDecrements ==
    (last.op = "write_all" /\ last.res = "Ok")
        => The.remaining = last.prem - last.arg.a

(* C3: in every reachable state every view has 0 <= remaining <= length,   *)
(* position() = length - remaining within [0, length], and begin, length   *)
(* and len() are the values given to new.                                  *)
C3_FieldsInvariant ==
    \A v \in Views :
        view[v].alive =>
            /\ view[v].remaining \in 0 .. view[v].length
            /\ position(view[v]) = view[v].length - view[v].remaining
            /\ position(view[v]) \in 0 .. view[v].length
            /\ view[v].begin = ghost[v].begin
            /\ view[v].length = ghost[v].length
            /\ len(view[v]) = ghost[v].length

\* Both views exist, each has moved, and they stand at different positions.
C3_Witness ==
    /\ view[1].alive /\ view[2].alive
    /\ view[1].remaining < view[1].length
    /\ view[2].remaining < view[1].remaining
    /\ view[1].begin > 0

(* C4: a relative seek (from the current position or from the end) by a    *)
(* signed delta d, negative or not, whose target t lies in [0, length]     *)
(* succeeds, returns t and sets position() = t, when the underlying stream *)
(* honours the seek.                                                       *)
C4_RelativeSeek ==
    (/\ last.op = "seek"
     /\ last.arg.kind \in {"Current", "End"}
     /\ SeekTarget \in 0 .. The.length
     /\ Honoured)
        => /\ last.res = "Ok"
           /\ last.val = SeekTarget
           /\ position(The) = SeekTarget

(* C5: a seek to a window-relative offset o in [0, length] (o = length     *)
(* included), asked for with a non-negative argument, succeeds when the    *)
(* underlying stream honours it: one absolute seek to begin + o is issued, *)
(* o is returned, position() = o and remaining = length - o.               *)
C5_SeekWithinWindow ==
    (/\ last.op = "seek"
     /\ last.arg.a >= 0
     /\ SeekTarget \in 0 .. The.length
     /\ Honoured)
        => /\ last.res = "Ok"
           /\ last.val = SeekTarget
           /\ last.ucalls = <<UCall("seek", The.begin + SeekTarget)>>
           /\ position(The) = SeekTarget
           /\ The.remaining = The.length - SeekTarget

\* A seek from the start to the very end of a window that was not there.
C5_Witness ==
    /\ last.op = "seek" /\ last.res = "Ok"
    /\ last.arg.kind = "Start"
    /\ last.arg.a = The.length
    /\ The.length > 0 /\ The.begin > 0
    /\ last.prem > 0

(* C6: a seek whose target is length + 1 or -1, through any variant, fails *)
(* with UnexpectedEof, issues no seek on the underlying stream and leaves  *)
(* position() unchanged.                                                   *)
C6_SeekOutOfWindow ==
    (/\ last.op = "seek"
     /\ SeekTarget \in {0 - 1, The.length + 1})
        => /\ last.res = "UnexpectedEof"
           /\ last.ucalls = <<>>
           /\ position(The) = PositionBefore

(* C7: new fails with InvalidInput, without a seek on the source, whenever *)
(* begin > i64::MAX, length > i64::MAX or begin + length > i64::MAX, the   *)
(* sum taken in the integers.                                              *)
C7_NewRejectsOverflow ==
    (/\ last.op = "new"
     /\ \/ last.arg.a > I64_MAX
        \/ last.arg.b > I64_MAX
        \/ last.arg.a + last.arg.b > I64_MAX)
        => /\ last.res = "InvalidInput"
           /\ last.ucalls = <<>>
           /\ stream[1].pos = last.lo
           /\ ~The.alive

\* A rejected pair whose sum does not fit the word.
C7_Witness ==
    /\ last.op = "new" /\ last.res = "InvalidInput"
    /\ last.arg.a + last.arg.b >= U64Mod
    /\ last.arg.b <= I64_MAX

(* C8: for begin + length <= i64::MAX and a source whose seek to begin     *)
(* reports begin, new succeeds after exactly one seek on the source, to    *)
(* begin, and the view has len() = length, position() = 0 and              *)
(* remaining = length.                                                     *)
C8_NewSucceeds ==
    (/\ last.op = "new"
     /\ last.arg.a + last.arg.b <= I64_MAX
     /\ Honoured)
        => /\ last.res = "Ok"
           /\ last.ucalls = <<UCall("seek", last.arg.a)>>
           /\ The.alive
           /\ The.begin = last.arg.a
           /\ len(The) = last.arg.b
           /\ position(The) = 0
           /\ The.remaining = last.arg.b

\* The largest window that starts past the beginning of the stream.
C8_Witness ==
    /\ last.op = "new" /\ last.res = "Ok"
    /\ last.arg.a > 0 /\ last.arg.b > 0
    /\ last.arg.a + last.arg.b = I64_MAX

(* C9: read asks the underlying stream for at most min(remaining, buffer   *)
(* capacity) bytes and decrements remaining by the number delivered; after *)
(* reads totalling k on a fresh view position() = k, and a read returns at *)
(* most length minus the bytes read before it.                             *)
C9_BoundedRead ==
    /\ last.op = "read" =>
          /\ Len(last.ucalls) = 1
          /\ last.ucalls[1].call = "read"
          /\ last.ucalls[1].arg <= Min(last.prem, last.arg.a)
          /\ last.val = last.n
          /\ The.remaining = last.prem - last.n
          /\ last.val <= The.length - PositionBefore
    /\ (The.alive /\ ghost[1].onlyReads) =>
          /\ ghost[1].readSum <= The.length
          /\ position(The) = ghost[1].readSum

\* A second read on a fresh view, with a buffer larger than what is left,
\* returns what is left.
C9_Witness ==
    /\ last.op = "read" /\ last.res = "Ok"
    /\ ghost[1].onlyReads
    /\ last.prem < The.length
    /\ last.arg.a > last.prem
    /\ last.val = last.prem /\ last.val > 0

(* C10 as stated: whenever remaining = 0 a read returns 0 bytes as a       *)
(* success, transfers no data and leaves remaining at 0.                   *)
C10_ReadAtEnd ==
    (last.op = "read" /\ last.prem = 0)
        => /\ last.res = "Ok"
           /\ last.val = 0
           /\ last.n = 0
           /\ The.remaining = 0

(* C10 amended: whenever remaining = 0 a read asks the underlying stream   *)
(* for 0 bytes, transfers no data and leaves remaining at 0; it returns 0  *)
(* bytes as a success unless that zero-length read of the underlying       *)
(* stream fails, and then it returns the stream's error.                   *)
C10_ReadAtEndAmended ==
    (last.op = "read" /\ last.prem = 0)
        => /\ last.ucalls = <<UCall("read", 0)>>
           /\ last.n = 0
           /\ last.out = <<>>
           /\ stream[The.underlying].pos = last.lo
           /\ The.remaining = 0
           /\ last.under = "ok" => (last.res = "Ok" /\ last.val = 0)
           /\ last.under = "err" => last.res = "Io"
           /\ last.under \in {"ok", "err"}

\* A read into a non-empty buffer at the end of a non-empty window, with
\* bytes of the stream lying beyond the window.
C10_Witness ==
    /\ last.op = "read" /\ last.res = "Ok"
    /\ last.prem = 0 /\ last.arg.a > 0
    /\ The.length > 0
    /\ Avail(stream[The.underlying]) > 0


\* The bytes of the stream at the absolute offsets lo .. hi - 1, in order.
Bytes(data, lo, hi) == SubSeq(data, lo + 1, hi)

\* C11: over a stream that holds at least begin + length bytes, read_to_end
\* on a view at position p appends exactly the bytes at the absolute offsets
\* begin + p .. begin + length - 1 after what the destination held, returns
\* length - p and leaves remaining at 0.
C11_ReadToEnd ==
    (/\ last.op = "read_to_end"
     /\ Len(stream[1].data) >= The.begin + The.length)
    => /\ last.res = "Ok"
       /\ last.out = Dest(last.arg.a)
                      \o Bytes(stream[1].data, The.begin + PositionBefore,
                               The.begin + The.length)
       /\ last.val = The.length - PositionBefore
       /\ The.remaining = 0


\* C12: a write of more bytes than remain fails with UnexpectedEof, makes no
\* call on the stream and leaves the stream and the view as they were; a
\* write of at most `remaining` bytes makes one write call on the stream for
\* the whole buffer and, when the stream accepts n bytes, returns n and
\* lowers remaining by n, so that an accepted write of exactly
\* length - position() bytes leaves remaining at 0.
C12_Write ==
    [][ last'.op = "write" =>
        LET size == last'.arg.a
        IN  IF size > The.remaining
            THEN /\ last'.res = "UnexpectedEof"
                 /\ last'.ucalls = <<>>
                 /\ stream' = stream
                 /\ view' = view
            ELSE /\ last'.ucalls = <<UCall("write", size)>>
                 /\ last'.under = "ok" =>
                       /\ last'.res = "Ok"
                       /\ The'.remaining = The.remaining - last'.val
                       /\ (last'.val = size /\ size = The.length - position(The))
                             => The'.remaining = 0 ]_vars

C12_Witness ==
    /\ last.op = "write"
    /\ last.res = "Ok"
    /\ last.arg.a = last.prem
    /\ last.val = last.arg.a
    /\ last.prem > 0
    /\ The.remaining = 0


\* A seek, read or write call on the view w.
CallOn(w) ==
    \/ \E from \in SeekFrom : Seek(w, from)
    \/ \E capacity \in 0 .. MaxBuf : Read(w, capacity)
    \/ \E size \in 0 .. MaxBuf : Write(w, size)

\* The absolute offset at which the next read or write of the view v lands.
LandsAt(v) == stream[view[v].underlying].pos

\* C13: a view and its duplicate are independent: a seek, read or write on
\* one of them leaves the position of the other and the absolute offset at
\* which the other's next read or write lands as they were.
C13_Independent ==
    [][ \A v, w \in Views :
          (v # w /\ view[v].alive /\ view[w].alive /\ CallOn(w))
          => /\ position(view[v])' = position(view[v])
             /\ LandsAt(v)' = LandsAt(v) ]_vars


\* The last call made no call on the stream and left remaining as it was.
SeekLeftAlone == last.ucalls = <<>> /\ The.remaining = last.prem

\* C14: seek fails with InvalidInput, without a seek on the stream and with
\* remaining unchanged, whenever the window-relative target computed from
\* the variant is larger in magnitude than i64::MAX.
C14_SeekOverflow ==
    (/\ last.op = "seek"
     /\ (SeekTarget > I64_MAX \/ SeekTarget < 0 - I64_MAX))
        => last.res = "InvalidInput" /\ SeekLeftAlone

\* C14, amended: the first check of seek looks at the offset the variant
\* carries, not at the target.  A from-start offset above i64::MAX and a
\* target below -i64::MAX fail with InvalidInput; a non-negative delta that
\* carries the target above i64::MAX fails with UnexpectedEof.  In each case
\* no seek is made on the stream and remaining is unchanged.
C14_SeekOverflowAmended ==
    last.op = "seek" =>
        /\ (last.arg.kind = "Start" /\ last.arg.a > I64_MAX)
              => last.res = "InvalidInput" /\ SeekLeftAlone
        /\ SeekTarget < 0 - I64_MAX
              => last.res = "InvalidInput" /\ SeekLeftAlone
        /\ (last.arg.kind \in {"Current", "End"} /\ last.arg.a >= 0
                /\ SeekTarget > I64_MAX)
              => last.res = "UnexpectedEof" /\ SeekLeftAlone

C14_Witness ==
    /\ last.op = "seek"
    /\ last.arg.kind = "Current"
    /\ last.arg.a > 0
    /\ PositionBefore > 0
    /\ SeekTarget > I64_MAX
    /\ last.res = "UnexpectedEof"


\* C15: when the stream ends before read_exact got all remaining bytes, or
\* the stream reports an error, read_to_end returns that error and no
\* count, the destination holds what it held before the call, and remaining
\* is unchanged.
C15_ReadToEndFails ==
    (/\ last.op = "read_to_end"
     /\ last.under \in {"eof", "err"})
        => /\ last.res \in {"UnexpectedEof", "Io"}
           /\ last.val = 0
           /\ last.out = Dest(last.arg.a)
           /\ The.remaining = last.prem

C15_Witness ==
    /\ last.op = "read_to_end"
    /\ last.under = "err"
    /\ last.n > 0
    /\ last.arg.a > 0
    /\ last.prem > last.n


\* The stream answered the seek of the last call with a position other than
\* the one it was asked for.
Misreported ==
    /\ last.ucalls # <<>>
    /\ last.under # "err"
    /\ stream[1].pos # last.ucalls[1].arg

\* C16: when the stream answers an in-bounds seek of a view with a position
\* other than the absolute offset asked for, seek fails with Other, and
\* remaining and position() are what they were before the call.
C16_SeekMisreported ==
    (last.op = "seek" /\ Misreported)
        => /\ last.res = "Other"
           /\ The.remaining = last.prem
           /\ position(The) = PositionBefore

C16_Witness ==
    /\ last.op = "seek"
    /\ Misreported
    /\ last.res = "Other"
    /\ last.ucalls[1].arg \in Window(The) \cup {The.begin + The.length}

\* C17: when new is given a begin and a length it accepts and the source
\* answers the seek to begin with another position, new fails with
\* InvalidInput and there is no view; when that seek fails, new returns the
\* error of the source.
C17_NewMisreported ==
    (last.op = "new" /\ last.ucalls # <<>>)
        => /\ Misreported => last.res = "InvalidInput" /\ ~The.alive
           /\ last.under = "err" => last.res = "Io" /\ ~The.alive

C17_Witness ==
    /\ last.op = "new"
    /\ last.arg.a + last.arg.b <= I64_MAX
    /\ Misreported
    /\ last.res = "InvalidInput"
    /\ ~The.alive

\* C18: when the read, write, seek or flush of the stream fails inside the
\* read, write, seek or flush of a view, the view returns the error of the
\* stream, and its begin, length and remaining are unchanged.
C18_ErrorsPassThrough ==
    [][ (/\ last'.op \in {"read", "write", "seek", "flush"}
         /\ last'.under = "err")
        => last'.res = "Io" /\ view' = view ]_vars

C18_Witness ==
    /\ last.op = "write"
    /\ last.under = "err"
    /\ last.res = "Io"
    /\ last.arg.a > 0
    /\ last.prem >= last.arg.a


\* C19: after new and any run of seek, read, read_to_end, write and flush
\* calls in which every call on the stream succeeds and does what it was
\* asked, the cursor of the stream stands at begin + position(), also after
\* reads and writes that moved fewer bytes than offered.
C19_CursorInSync ==
    The.alive => stream[The.underlying].pos = The.begin + position(The)

C19_Witness ==
    /\ last.op = "write"
    /\ last.res = "Ok"
    /\ 0 < last.val
    /\ last.val < last.arg.a
    /\ PositionBefore > 0
    /\ stream[The.underlying].pos = The.begin + position(The)


\* The view as the last call found it, and the argument of the last seek.
ViewBefore == [The EXCEPT !.remaining = last.prem]
SeekArg == [whence |-> last.arg.kind, x |-> last.arg.a]

\* The absolute offset of the last seek with the sums taken in the integers.
SeekExact ==
    CASE last.arg.kind = "Start" ->
            ViewBefore.begin + SeekRaw(SeekArg)
      [] last.arg.kind = "Current" ->
            ViewBefore.begin + ViewBefore.length - ViewBefore.remaining
                + SeekRaw(SeekArg)
      [] last.arg.kind = "End" ->
            ViewBefore.begin + ViewBefore.length + SeekRaw(SeekArg)

\* C20: for a view with begin + length <= i64::MAX and remaining <= length
\* and a seek argument the first check lets through, no u64 computation of
\* seek wraps: the absolute offset and the sums it is made of, and for an
\* in-bounds target absolute - begin and length - new, have in u64 the
\* values they have in the integers.
C20_SeekNoWrap ==
    (/\ last.op = "seek"
     /\ last.res # "InvalidInput"
     /\ ViewBefore.begin + ViewBefore.length <= I64_MAX
     /\ ViewBefore.remaining <= ViewBefore.length)
        => /\ ViewBefore.begin + ViewBefore.length - ViewBefore.remaining \in U64
           /\ SeekExact \in U64
           /\ SeekAbsolute(ViewBefore, SeekArg) = SeekExact
           /\ SeekInBounds(ViewBefore, SeekExact)
                 => /\ SeekExact - ViewBefore.begin \in U64
                    /\ SeekNew(ViewBefore, SeekExact) = SeekExact - ViewBefore.begin
                    /\ ViewBefore.length - (SeekExact - ViewBefore.begin) \in U64
                    /\ SeekRemaining(ViewBefore, SeekExact)
                          = ViewBefore.length - (SeekExact - ViewBefore.begin)

C20_Witness ==
    /\ last.op = "seek"
    /\ last.res # "InvalidInput"
    /\ last.arg.kind = "End"
    /\ last.arg.a = I64_MAX
    /\ ViewBefore.begin > 0
    /\ ViewBefore.begin + ViewBefore.length = I64_MAX
    /\ SeekExact = 2 * I64_MAX

====
